---- MODULE Spec2Model ----
(***************************************************************************)
(* Vector<T> of src/vector.hpp: a resizable array that manages raw storage *)
(* by hand (operator new / placement new / explicit destructor calls).     *)
(*                                                                         *)
(* The model keeps a heap of buffers; every slot of a buffer is either     *)
(* uninitialized storage, a live T, a moved-from T, or a T of indeterminate*)
(* content (the result of an assignment the language does not define).     *)
(* Memory outside every allocation is not kept: a store past the end of a  *)
(* buffer leaves the heap of the model as it is and a load from there      *)
(* yields indeterminate content.  Vector instances are the records of vecs;*)
(* a pointer is a buffer address, an Iterator a buffer address and an      *)
(* offset.                                                                 *)
(***************************************************************************)
EXTENDS Integers, Sequences, FiniteSets, TLC

(* ---------------- bounds of the model ---------------- *)
MaxVal   == 2      \* element values are 1..MaxVal
MaxCount == 1      \* largest count passed to the fill constructors
MaxMem   == 4      \* slots the allocator can hand out (two-instance runs)
OneMem   == 6      \* slots the allocator can hand out (one-instance runs)
PushMem  == 12     \* slots the allocator can hand out (push-only runs)
MaxOver  == 2      \* how far past the end of its buffer a run may store
NumAddr  == 3      \* distinct buffer addresses
MaxIndex == 4      \* largest index or cursor offset a caller passes
MaxNewCapacity == 3   \* largest capacity passed to Reallocate directly

(* ---------------- program constants ---------------- *)
INITIAL_CAPACITY == 1

Vecs    == {"a", "b"}
Vals    == 1..MaxVal
Addrs   == 1..NumAddr
NullPtr == 0

VARIABLES
    vecs,      \* the Vector instances: m_Data, m_Size, m_Capacity
    heap,      \* address -> buffer (allocated size, slots)
    freeMem,   \* slots the allocator can still hand out
    ret,       \* what the most recent call returned or threw
    out,       \* what the most recent call wrote to std::cout
    call,      \* the most recent call's receiver and its Vector argument
    cursor     \* an Iterator object the caller holds

vars == <<vecs, heap, freeMem, ret, out, call, cursor>>

(* ---------------- slots of raw storage ---------------- *)
Uninit    == [st |-> "uninit", val |-> 0]   \* storage without an object
MovedFrom == [st |-> "moved",  val |-> 0]   \* a constructed T that was moved from
Indet     == [st |-> "indet",  val |-> 0]   \* content the language leaves undefined
Live(x)   == [st |-> "live",   val |-> x]   \* a constructed T of value x

Constructed(s) == s.st \in {"live", "moved"}

\* T(other): copy construction reads the source object
CopyOf(s) == IF s.st = "live" THEN s ELSE Indet
\* std::move(s) leaves a constructed source in the moved-from state
AfterMove(s) == IF s.st = "live" THEN MovedFrom ELSE s
\* operator<< of a slot: a live T prints its value, anything else is indeterminate
Printed(s) == IF s.st = "live" THEN s ELSE Indet

(* ---------------- results of a call ---------------- *)
NoRet        == [status |-> "none", val |-> Uninit]
Returned(s)  == [status |-> "ok", val |-> s]
Thrown(what) == [status |-> what, val |-> Uninit]

(* ---------------- the world the member functions act on ---------------- *)
World == [vecs |-> vecs, heap |-> heap, freeMem |-> freeMem]

Unborn == [alive |-> FALSE, m_Data |-> NullPtr, m_Size |-> 0, m_Capacity |-> 0]
NoBuffer == [alloc |-> -1, mem |-> <<>>]

Min(S) == CHOOSE x \in S : \A y \in S : x <= y
FreeAddrs(hp) == {p \in Addrs : hp[p].alloc = -1}

\* ::operator new can serve the request
CanAllocate(w, capacity) ==
    /\ FreeAddrs(w.heap) # {}
    /\ capacity <= w.freeMem

\* Allocate(capacity): a fresh buffer of capacity uninitialized slots
Allocate(w, capacity) ==
    LET p == Min(FreeAddrs(w.heap))
    IN [ptr |-> p,
        w   |-> [w EXCEPT
                   !.heap[p] = [alloc |-> capacity,
                                mem   |-> [i \in 0..(capacity - 1) |-> Uninit]],
                   !.freeMem = @ - capacity]]

\* Deallocate(): releases the buffer m_Data points to
Deallocate(w, v) ==
    LET p == w.vecs[v].m_Data
    IN [w EXCEPT !.heap[p] = NoBuffer,
                 !.freeMem = @ + w.heap[p].alloc]

\* a load of slot i of buffer p; past the end of the allocation the content
\* is indeterminate
Load(w, p, i) ==
    IF i < w.heap[p].alloc THEN w.heap[p].mem[i] ELSE Indet

\* m_Data[i] of instance v
SlotOf(w, v, i) == Load(w, w.vecs[v].m_Data, i)

\* a store to slot i of buffer p; past the end of the allocation it lands in
\* memory the model does not keep
Store(w, p, i, s) ==
    IF i < w.heap[p].alloc THEN [w EXCEPT !.heap[p].mem[i] = s] ELSE w

\* the live elements of v, as the sequence operator[](0) .. operator[](Size()-1)
Elems(w, v) ==
    [i \in 1..w.vecs[v].m_Size |-> SlotOf(w, v, i - 1)]

\* a member function of Vector ends: the world it leaves, what it returned and
\* printed; the caller's Iterator object is not touched
Commit(w, r, o) ==
    /\ vecs' = w.vecs
    /\ heap' = w.heap
    /\ freeMem' = w.freeMem
    /\ ret' = r
    /\ out' = o
    /\ cursor' = cursor

(* ---------------- Iterator ---------------- *)
\* Iterator(ptr): m_Ptr is an address and an offset into the buffer at it
Iterator(buf, off) == [buf |-> buf, off |-> off]
\* Iterator Begin() const
Begin(me) == Iterator(me.m_Data, 0)
\* End() that points past the capacity instead of past the last element
EndAtCapacity(me) == Iterator(me.m_Data, me.m_Capacity)
\* Iterator End() const
End(me) == Iterator(me.m_Data, me.m_Size)
\* SizeType Size() const
Size(me) == me.m_Size
\* bool Empty() const
Empty(me) == me.m_Size = 0
\* bool operator==(const Iterator& other) const: m_Ptr == other.m_Ptr
IterEq(it, other) == it.buf = other.buf /\ it.off = other.off
\* Reference operator*() const: the slot m_Ptr points to
Deref(w, it) == Load(w, it.buf, it.off)
\* Iterator operator+(DifferenceType offset) const
IterPlus(it, offset) == Iterator(it.buf, it.off + offset)
\* DifferenceType operator-(const Iterator& other) const
IterDiff(it, other) == it.off - other.off
\* Iterator(): m_Ptr(nullptr)
DefaultIterator == Iterator(NullPtr, 0)
\* Iterator& operator++(): ++m_Ptr; return *this;
\* (self is the object after the call, result what the call returns)
PreIncrement(it) ==
    LET self == Iterator(it.buf, it.off + 1)
    IN [self |-> self, result |-> self]
\* Iterator operator++(int): copy = *this; ++(*this); return *this;
PostIncrement(it) ==
    LET self == PreIncrement(it).self
    IN [self |-> self, result |-> self]
\* Iterator& operator--(): --m_Ptr; return *this;
PreDecrement(it) ==
    LET self == Iterator(it.buf, it.off - 1)
    IN [self |-> self, result |-> self]
\* Iterator operator--(int): copy = *this; ++(*this); return *this;
PostDecrement(it) ==
    LET self == PreIncrement(it).self
    IN [self |-> self, result |-> self]

(* ---------------- private helpers and loops ---------------- *)
\* Clear whose loop starts at index 1
ClearSkipsFirst(w, v) ==
    LET me == w.vecs[v]
    IN [w EXCEPT !.heap[me.m_Data].mem =
                    [i \in DOMAIN @ |-> IF 0 < i /\ i < me.m_Size THEN Uninit ELSE @[i]],
                 !.vecs[v].m_Size = 0]

\* the loop of Clear(): m_Data[i].~ValueType() for i in [0, m_Size), then m_Size = 0
Clear(w, v) ==
    LET me == w.vecs[v]
    IN [w EXCEPT !.heap[me.m_Data].mem =
                    [i \in DOMAIN @ |-> IF i < me.m_Size THEN Uninit ELSE @[i]],
                 !.vecs[v].m_Size = 0]

\* Reallocate with the loop bound i < m_Size - 1: the last element is not carried over
ReallocateDropsLast(w, v, newCapacity) ==
    LET me == w.vecs[v]
    IN IF newCapacity < me.m_Size
       THEN [thrown |-> TRUE, w |-> w]
       ELSE LET al == Allocate(w, newCapacity)
                old == w.heap[me.m_Data].mem
                w1 == [al.w EXCEPT
                         !.heap[al.ptr].mem =
                            [i \in DOMAIN @ |->
                               IF i < me.m_Size - 1 THEN CopyOf(old[i]) ELSE @[i]]]
                w2 == Deallocate(w1, v)
            IN [thrown |-> FALSE,
                w |-> [w2 EXCEPT !.vecs[v].m_Data = al.ptr,
                                 !.vecs[v].m_Capacity = newCapacity]]

\* Reallocate that refuses every capacity below m_Capacity
ReallocateChecksCapacity(w, v, newCapacity) ==
    LET me == w.vecs[v]
    IN IF newCapacity < me.m_Capacity
       THEN [thrown |-> TRUE, w |-> w]
       ELSE LET al == Allocate(w, newCapacity)
                w1 == [al.w EXCEPT
                         !.heap[al.ptr].mem =
                            [i \in DOMAIN @ |->
                               IF i < me.m_Size THEN CopyOf(Load(w, me.m_Data, i)) ELSE @[i]],
                         !.heap[me.m_Data].mem =
                            [i \in DOMAIN @ |-> IF i < me.m_Size THEN Uninit ELSE @[i]]]
                w2 == Deallocate(w1, v)
            IN [thrown |-> FALSE,
                w |-> [w2 EXCEPT !.vecs[v].m_Data = al.ptr,
                                 !.vecs[v].m_Capacity = newCapacity]]

\* void Reallocate(SizeType newCapacity)
Reallocate(w, v, newCapacity) ==
    LET me == w.vecs[v]
    IN IF newCapacity < me.m_Size
       THEN [thrown |-> TRUE, w |-> w]
       ELSE LET al == Allocate(w, newCapacity)
                \* new (&newArray[i]) ValueType(std::move(m_Data[i])); m_Data[i].~ValueType();
                w1 == [al.w EXCEPT
                         !.heap[al.ptr].mem =
                            [i \in DOMAIN @ |->
                               IF i < me.m_Size THEN CopyOf(Load(w, me.m_Data, i)) ELSE @[i]],
                         !.heap[me.m_Data].mem =
                            [i \in DOMAIN @ |-> IF i < me.m_Size THEN Uninit ELSE @[i]]]
                w2 == Deallocate(w1, v)
            IN [thrown |-> FALSE,
                w |-> [w2 EXCEPT !.vecs[v].m_Data = al.ptr,
                                 !.vecs[v].m_Capacity = newCapacity]]

\* the copy loop of the copy constructor and of copy assignment, from index i:
\*   for (i = 0; i < other.m_Size; ++i) new (&m_Data[i]) ValueType(other[i]);
RECURSIVE CopyElements(_, _, _, _)
CopyElements(w, v, other, i) ==
    IF i < w.vecs[other].m_Size
    THEN CopyElements(Store(w, w.vecs[v].m_Data, i, CopyOf(SlotOf(w, other, i))),
                      v, other, i + 1)
    ELSE w

\* the shift loop of Insert, from index i down to index + 1:
\*   for (i = m_Size; i > index; --i) new (&m_Data[i]) ValueType(std::move(m_Data[i - 1]));
RECURSIVE ShiftUp(_, _, _, _)
ShiftUp(w, p, i, index) ==
    IF i > index
    THEN LET w1 == Store(w, p, i, CopyOf(Load(w, p, i - 1)))
             w2 == Store(w1, p, i - 1, AfterMove(Load(w1, p, i - 1)))
         IN ShiftUp(w2, p, i - 1, index)
    ELSE w

\* what the shift loop of Insert(Iterator, ConstReference) streams to std::cout:
\*   std::cout << m_Data[i] << std::endl, before slot i is constructed
RECURSIVE ShiftUpPrints(_, _, _, _)
ShiftUpPrints(w, p, i, index) ==
    IF i > index
    THEN LET w1 == Store(w, p, i, CopyOf(Load(w, p, i - 1)))
             w2 == Store(w1, p, i - 1, AfterMove(Load(w1, p, i - 1)))
         IN <<Printed(Load(w, p, i))>> \o ShiftUpPrints(w2, p, i - 1, index)
    ELSE <<>>

\* m_Data[index] = value: assignment needs a constructed object to assign to;
\* assigning to storage that holds none is undefined: the slot ends with the
\* value (lucky) or indeterminate
Assign(w, p, i, s, lucky) ==
    Store(w, p, i, IF Constructed(Load(w, p, i)) \/ lucky THEN s ELSE Indet)

\* the outcomes of an assignment to slot i of buffer p: one where the slot holds
\* a constructed object, both where it does not
Outcomes(w, p, i) ==
    IF Constructed(Load(w, p, i)) THEN {TRUE} ELSE BOOLEAN

\* the shift loop of Erase, from index i:
\*   for (i = index; i < m_Size - 1; ++i) new (&m_Data[i]) ValueType(std::move(m_Data[i + 1]));
RECURSIVE ShiftDown(_, _, _, _)
ShiftDown(w, p, i, size) ==
    IF i < size - 1
    THEN LET w1 == Store(w, p, i, CopyOf(Load(w, p, i + 1)))
             w2 == Store(w1, p, i + 1, AfterMove(Load(w1, p, i + 1)))
         IN ShiftDown(w2, p, i + 1, size)
    ELSE w

(* ---------------- constructors ---------------- *)
\* Vector()
DefaultCtor(v) ==
    /\ ~vecs[v].alive
    /\ CanAllocate(World, INITIAL_CAPACITY)
    /\ LET al == Allocate(World, INITIAL_CAPACITY)
       IN Commit([al.w EXCEPT !.vecs[v] =
                     [alive |-> TRUE, m_Data |-> al.ptr, m_Size |-> 0,
                      m_Capacity |-> INITIAL_CAPACITY]], NoRet, <<>>)

\* explicit Vector(SizeType count)
FillCtor(v, count) ==
    /\ ~vecs[v].alive
    /\ CanAllocate(World, count)
    /\ LET al == Allocate(World, count)
       IN Commit([al.w EXCEPT !.vecs[v] =
                     [alive |-> TRUE, m_Data |-> al.ptr, m_Size |-> 0,
                      m_Capacity |-> count]], NoRet, <<>>)

\* Vector(SizeType count, ConstReference value)
FillValueCtor(v, count, value) ==
    /\ ~vecs[v].alive
    /\ CanAllocate(World, count)
    /\ LET al == Allocate(World, count)
           w1 == [al.w EXCEPT !.vecs[v] =
                     [alive |-> TRUE, m_Data |-> al.ptr, m_Size |-> count,
                      m_Capacity |-> count]]
           w2 == [w1 EXCEPT !.heap[al.ptr].mem =
                     [i \in DOMAIN @ |-> IF i < count THEN Live(value) ELSE @[i]]]
       IN Commit(w2, NoRet, <<>>)

\* a copy constructor that copies the pointer instead of the elements
CopyCtorShallow(v, other) ==
    /\ ~vecs[v].alive
    /\ vecs[other].alive
    /\ LET src == vecs[other]
       IN Commit([World EXCEPT !.vecs[v] =
                     [alive |-> TRUE, m_Data |-> src.m_Data, m_Size |-> src.m_Size,
                      m_Capacity |-> src.m_Capacity]], NoRet, <<>>)

\* Vector(const Vector& other)
CopyCtor(v, other) ==
    /\ ~vecs[v].alive
    /\ vecs[other].alive
    /\ CanAllocate(World, vecs[other].m_Capacity)
    /\ LET src == vecs[other]
           al  == Allocate(World, src.m_Capacity)
           w1  == [al.w EXCEPT !.vecs[v] =
                     [alive |-> TRUE, m_Data |-> al.ptr, m_Size |-> src.m_Size,
                      m_Capacity |-> src.m_Capacity]]
       IN Commit(CopyElements(w1, v, other, 0), NoRet, <<>>)

\* a move constructor that does not re-initialize the source
MoveCtorLeavesSource(v, other) ==
    /\ ~vecs[v].alive
    /\ vecs[other].alive
    /\ LET src == vecs[other]
       IN Commit([World EXCEPT !.vecs[v] =
                     [alive |-> TRUE, m_Data |-> src.m_Data, m_Size |-> src.m_Size,
                      m_Capacity |-> src.m_Capacity]], NoRet, <<>>)

\* Vector(Vector&& other)
MoveCtor(v, other) ==
    /\ ~vecs[v].alive
    /\ vecs[other].alive
    /\ CanAllocate(World, INITIAL_CAPACITY)
    /\ LET src == vecs[other]
           w1  == [World EXCEPT !.vecs[v] =
                     [alive |-> TRUE, m_Data |-> src.m_Data, m_Size |-> src.m_Size,
                      m_Capacity |-> src.m_Capacity]]
           al  == Allocate(w1, INITIAL_CAPACITY)
           w2  == [al.w EXCEPT !.vecs[other].m_Data = al.ptr,
                               !.vecs[other].m_Size = 0,
                               !.vecs[other].m_Capacity = INITIAL_CAPACITY]
       IN Commit(w2, NoRet, <<>>)

\* ~Vector()
Dtor(v) ==
    /\ vecs[v].alive
    /\ LET w1 == Deallocate(Clear(World, v), v)
       IN Commit([w1 EXCEPT !.vecs[v] = Unborn], NoRet, <<>>)

(* ---------------- assignment ---------------- *)
\* a copy assignment that takes over the pointer of other
CopyAssignShallow(v, other) ==
    /\ vecs[v].alive
    /\ vecs[other].alive
    /\ IF v = other
       THEN Commit(World, NoRet, <<>>)
       ELSE LET w1 == Deallocate(Clear(World, v), v)
                src == vecs[other]
            IN Commit([w1 EXCEPT !.vecs[v].m_Data = src.m_Data,
                                 !.vecs[v].m_Size = src.m_Size,
                                 !.vecs[v].m_Capacity = src.m_Capacity], NoRet, <<>>)

\* Vector& operator=(const Vector& other)
CopyAssign(v, other) ==
    /\ vecs[v].alive
    /\ vecs[other].alive
    /\ IF v = other
       THEN Commit(World, NoRet, <<>>)
       ELSE LET w1 == Deallocate(Clear(World, v), v)
            IN /\ CanAllocate(w1, vecs[other].m_Capacity)
               /\ LET src == vecs[other]
                      al  == Allocate(w1, src.m_Capacity)
                      w2  == [al.w EXCEPT !.vecs[v].m_Data = al.ptr,
                                          !.vecs[v].m_Size = src.m_Size,
                                          !.vecs[v].m_Capacity = src.m_Capacity]
                  IN Commit(CopyElements(w2, v, other, 0), NoRet, <<>>)

\* Vector& operator=(Vector&& other)
MoveAssign(v, other) ==
    /\ vecs[v].alive
    /\ vecs[other].alive
    /\ IF v = other
       THEN Commit(World, NoRet, <<>>)
       ELSE LET w1 == Deallocate(Clear(World, v), v)
            IN /\ CanAllocate(w1, INITIAL_CAPACITY)
               /\ LET src == vecs[other]
                      w2  == [w1 EXCEPT !.vecs[v].m_Data = src.m_Data,
                                        !.vecs[v].m_Size = src.m_Size,
                                        !.vecs[v].m_Capacity = src.m_Capacity]
                      al  == Allocate(w2, INITIAL_CAPACITY)
                      w3  == [al.w EXCEPT !.vecs[other].m_Data = al.ptr,
                                          !.vecs[other].m_Size = 0,
                                          !.vecs[other].m_Capacity = INITIAL_CAPACITY]
                  IN Commit(w3, NoRet, <<>>)

(* ---------------- element access ---------------- *)
\* Reference operator[](SizeType index)
Index(w, v, index) == SlotOf(w, v, index)

\* At with the bound taken from m_Capacity instead of m_Size
AtChecksCapacity(v, index) ==
    /\ vecs[v].alive
    /\ IF index >= vecs[v].m_Capacity
       THEN Commit(World, Thrown("OutOfRange"), <<>>)
       ELSE Commit(World, Returned(Index(World, v, index)), <<>>)

\* Reference At(SizeType index)
At(v, index) ==
    /\ vecs[v].alive
    /\ IF index >= vecs[v].m_Size
       THEN Commit(World, Thrown("OutOfRange"), <<>>)
       ELSE Commit(World, Returned(Index(World, v, index)), <<>>)

\* v[index] = value through the reference operator[] returns, index < Size()
IndexAssign(v, index, value) ==
    /\ vecs[v].alive
    /\ index < vecs[v].m_Size
    /\ \E lucky \in Outcomes(World, vecs[v].m_Data, index) :
         Commit(Assign(World, vecs[v].m_Data, index, Live(value), lucky), NoRet, <<>>)

(* ---------------- modifiers ---------------- *)
\* void Clear()
ClearOp(v) ==
    /\ vecs[v].alive
    /\ Commit(Clear(World, v), NoRet, <<>>)

\* the slot PushBack and Insert construct into lies in the storage the model tracks
RoomFor(w, v) ==
    LET me == w.vecs[v]
        cap == IF me.m_Size = me.m_Capacity THEN me.m_Capacity * 2 ELSE me.m_Capacity
    IN /\ me.m_Size = me.m_Capacity => CanAllocate(w, me.m_Capacity * 2)
       /\ me.m_Size < cap + MaxOver

\* growth by one slot instead of doubling
GrowByOne(w, v) ==
    IF w.vecs[v].m_Size = w.vecs[v].m_Capacity
    THEN Reallocate(w, v, w.vecs[v].m_Capacity + 1)
    ELSE [thrown |-> FALSE, w |-> w]

\* growth that asks for half the capacity
GrowHalves(w, v) ==
    IF w.vecs[v].m_Size = w.vecs[v].m_Capacity
    THEN Reallocate(w, v, w.vecs[v].m_Capacity \div 2)
    ELSE [thrown |-> FALSE, w |-> w]

\* if (m_Size == m_Capacity) Reallocate(m_Capacity * 2);
Grow(w, v) ==
    IF w.vecs[v].m_Size = w.vecs[v].m_Capacity
    THEN Reallocate(w, v, w.vecs[v].m_Capacity * 2)
    ELSE [thrown |-> FALSE, w |-> w]

\* void PushBack(const ValueType& value) and void PushBack(ValueType&& value)
PushBack(v, value) ==
    /\ vecs[v].alive
    /\ RoomFor(World, v)
    /\ LET g == Grow(World, v)
       IN IF g.thrown
          THEN Commit(g.w, Thrown("InvalidCapacity"), <<>>)
          ELSE LET me == g.w.vecs[v]
                   w1 == Store(g.w, me.m_Data, me.m_Size, Live(value))
               IN Commit([w1 EXCEPT !.vecs[v].m_Size = @ + 1], NoRet, <<>>)

\* PopBack that destructs the element below the last one
PopBackOffByOne(w, v) ==
    IF w.vecs[v].m_Size = 0
    THEN w
    ELSE LET w1 == [w EXCEPT !.vecs[v].m_Size = @ - 1]
             me == w1.vecs[v]
         IN Store(w1, me.m_Data, me.m_Size - 1, Uninit)

\* PopBack that only decrements m_Size
PopBackKeepsObject(w, v) ==
    IF w.vecs[v].m_Size = 0
    THEN w
    ELSE [w EXCEPT !.vecs[v].m_Size = @ - 1]

\* the body of PopBack(): if (m_Size == 0) return; --m_Size; m_Data[m_Size].~ValueType();
PopBackOn(w, v) ==
    IF w.vecs[v].m_Size = 0
    THEN w
    ELSE LET w1 == [w EXCEPT !.vecs[v].m_Size = @ - 1]
             me == w1.vecs[v]
         IN Store(w1, me.m_Data, me.m_Size, Uninit)

\* void PopBack()
PopBack(v) ==
    /\ vecs[v].alive
    /\ Commit(PopBackOn(World, v), NoRet, <<>>)

\* void Insert(Iterator position, ConstReference value), position = Begin() + k
Insert(v, k, value) ==
    /\ vecs[v].alive
    /\ k \in 0..vecs[v].m_Size
    /\ RoomFor(World, v)
    /\ LET position == IterPlus(Begin(vecs[v]), k)
           index == IterDiff(position, Begin(vecs[v]))
           g == Grow(World, v)
       IN IF g.thrown
          THEN Commit(g.w, Thrown("InvalidCapacity"), <<>>)
          ELSE LET me == g.w.vecs[v]
                   w1 == ShiftUp(g.w, me.m_Data, me.m_Size, index)
               IN \E lucky \in Outcomes(w1, me.m_Data, index) :
                    LET w2 == Assign(w1, me.m_Data, index, Live(value), lucky)
                    IN Commit([w2 EXCEPT !.vecs[v].m_Size = @ + 1], NoRet,
                              ShiftUpPrints(g.w, me.m_Data, me.m_Size, index))

\* void Insert(Iterator position, ValueType&& value), position = Begin() + k
InsertMove(v, k, value) ==
    /\ vecs[v].alive
    /\ k \in 0..vecs[v].m_Size
    /\ RoomFor(World, v)
    /\ LET position == IterPlus(Begin(vecs[v]), k)
           index == IterDiff(position, Begin(vecs[v]))
           g == Grow(World, v)
       IN IF g.thrown
          THEN Commit(g.w, Thrown("InvalidCapacity"), <<>>)
          ELSE LET me == g.w.vecs[v]
                   w1 == ShiftUp(g.w, me.m_Data, me.m_Size, index)
               IN \E lucky \in Outcomes(w1, me.m_Data, index) :
                    LET w2 == Assign(w1, me.m_Data, index, Live(value), lucky)
                    IN Commit([w2 EXCEPT !.vecs[v].m_Size = @ + 1], NoRet, <<>>)

\* Erase whose shift loop starts one slot late
EraseShiftsFromNext(v, k) ==
    /\ vecs[v].alive
    /\ k \in 0..(vecs[v].m_Size - 1)
    /\ LET position == IterPlus(Begin(vecs[v]), k)
           index == IterDiff(position, Begin(vecs[v]))
           me == vecs[v]
           w1 == ShiftDown(World, me.m_Data, index + 1, me.m_Size)
       IN Commit([w1 EXCEPT !.vecs[v].m_Size = @ - 1], NoRet, <<>>)

\* void Erase(Iterator position), position = Begin() + k at a live element
Erase(v, k) ==
    /\ vecs[v].alive
    /\ k \in 0..(vecs[v].m_Size - 1)
    /\ LET position == IterPlus(Begin(vecs[v]), k)
           index == IterDiff(position, Begin(vecs[v]))
           me == vecs[v]
           w1 == ShiftDown(World, me.m_Data, index, me.m_Size)
       IN Commit([w1 EXCEPT !.vecs[v].m_Size = @ - 1], NoRet, <<>>)

(* ---------------- which instances a call was given ---------------- *)
\* no call has been made yet
NoCall == [self |-> "", arg |-> ""]
\* a member function of v was called; other is its Vector argument (the
\* parameter of the copy and move members), v itself where there is none
Call(v, other) == call' = [self |-> v, arg |-> other]

(* ---------------- two instances ---------------- *)
\* every constructor, assignment and modifier on two instances; At and the
\* Insert overload that prints only differ from these in ret and out and are
\* exercised in SpecOne
Init ==
    /\ vecs = [v \in Vecs |-> Unborn]
    /\ heap = [p \in Addrs |-> NoBuffer]
    /\ freeMem = MaxMem
    /\ ret = NoRet
    /\ out = <<>>
    /\ call = NoCall
    /\ cursor = DefaultIterator

Next ==
    \/ \E v \in Vecs : DefaultCtor(v) /\ Call(v, v)
    \/ \E v \in Vecs, count \in 0..MaxCount : FillCtor(v, count) /\ Call(v, v)
    \/ \E v \in Vecs, count \in 0..MaxCount, value \in Vals : FillValueCtor(v, count, value) /\ Call(v, v)
    \/ \E v \in Vecs, other \in Vecs : CopyCtor(v, other) /\ Call(v, other)
    \/ \E v \in Vecs, other \in Vecs : MoveCtor(v, other) /\ Call(v, other)
    \/ \E v \in Vecs : Dtor(v) /\ Call(v, v)
    \/ \E v \in Vecs, other \in Vecs : CopyAssign(v, other) /\ Call(v, other)
    \/ \E v \in Vecs, other \in Vecs : MoveAssign(v, other) /\ Call(v, other)
    \/ \E v \in Vecs, index \in 0..MaxIndex, value \in Vals : IndexAssign(v, index, value) /\ Call(v, v)
    \/ \E v \in Vecs : ClearOp(v) /\ Call(v, v)
    \/ \E v \in Vecs, value \in Vals : PushBack(v, value) /\ Call(v, v)
    \/ \E v \in Vecs : PopBack(v) /\ Call(v, v)
    \/ \E v \in Vecs, k \in 0..MaxIndex, value \in Vals : InsertMove(v, k, value) /\ Call(v, v)
    \/ \E v \in Vecs, k \in 0..MaxIndex : Erase(v, k) /\ Call(v, v)

Spec == Init /\ [][Next]_vars

(* ---------------- one instance, a larger heap ---------------- *)
InitOne ==
    /\ vecs = [v \in Vecs |-> Unborn]
    /\ heap = [p \in Addrs |-> NoBuffer]
    /\ freeMem = OneMem
    /\ ret = NoRet
    /\ out = <<>>
    /\ call = NoCall
    /\ cursor = DefaultIterator

NextOne ==
    \/ DefaultCtor("a") /\ Call("a", "a")
    \/ \E count \in 0..MaxCount : FillCtor("a", count) /\ Call("a", "a")
    \/ \E count \in 0..MaxCount, value \in Vals : FillValueCtor("a", count, value) /\ Call("a", "a")
    \/ Dtor("a") /\ Call("a", "a")
    \/ CopyAssign("a", "a") /\ Call("a", "a")
    \/ MoveAssign("a", "a") /\ Call("a", "a")
    \/ \E index \in 0..MaxIndex : At("a", index) /\ Call("a", "a")
    \/ \E index \in 0..MaxIndex, value \in Vals : IndexAssign("a", index, value) /\ Call("a", "a")
    \/ ClearOp("a") /\ Call("a", "a")
    \/ \E value \in Vals : PushBack("a", value) /\ Call("a", "a")
    \/ PopBack("a") /\ Call("a", "a")
    \/ \E k \in 0..MaxIndex, value \in Vals : Insert("a", k, value) /\ Call("a", "a")
    \/ \E k \in 0..MaxIndex, value \in Vals : InsertMove("a", k, value) /\ Call("a", "a")
    \/ \E k \in 0..MaxIndex : Erase("a", k) /\ Call("a", "a")

SpecOne == InitOne /\ [][NextOne]_vars

(* ---------------- PushBack only, on a default-constructed instance ---------------- *)
InitPush ==
    LET blank == [vecs |-> [v \in Vecs |-> Unborn],
                  heap |-> [p \in Addrs |-> NoBuffer],
                  freeMem |-> PushMem]
        al == Allocate(blank, INITIAL_CAPACITY)
    IN /\ vecs = [al.w.vecs EXCEPT !["a"] =
                     [alive |-> TRUE, m_Data |-> al.ptr, m_Size |-> 0,
                      m_Capacity |-> INITIAL_CAPACITY]]
       /\ heap = al.w.heap
       /\ freeMem = al.w.freeMem
       /\ ret = NoRet
       /\ out = <<>>
       /\ call = [self |-> "a", arg |-> "a"]
       /\ cursor = DefaultIterator

NextPush == \E value \in Vals : PushBack("a", value) /\ Call("a", "a")

SpecPush == InitPush /\ [][NextPush]_vars

(* ---------------- Reallocate called with any capacity ---------------- *)
\* Reallocate(newCapacity) called on v as a member function would call it
ReallocateOp(v, newCapacity) ==
    /\ vecs[v].alive
    /\ newCapacity >= vecs[v].m_Size => CanAllocate(World, newCapacity)
    /\ LET r == Reallocate(World, v, newCapacity)
       IN IF r.thrown
          THEN Commit(r.w, Thrown("InvalidCapacity"), <<>>)
          ELSE Commit(r.w, NoRet, <<>>)

InitRealloc ==
    /\ vecs = [v \in Vecs |-> Unborn]
    /\ heap = [p \in Addrs |-> NoBuffer]
    /\ freeMem = OneMem
    /\ ret = NoRet
    /\ out = <<>>
    /\ call = NoCall
    /\ cursor = DefaultIterator

NextRealloc ==
    \/ DefaultCtor("a") /\ Call("a", "a")
    \/ \E count \in 0..MaxCount, value \in Vals : FillValueCtor("a", count, value) /\ Call("a", "a")
    \/ Dtor("a") /\ Call("a", "a")
    \/ ClearOp("a") /\ Call("a", "a")
    \/ \E value \in Vals : PushBack("a", value) /\ Call("a", "a")
    \/ PopBack("a") /\ Call("a", "a")
    \/ \E newCapacity \in 0..MaxNewCapacity : ReallocateOp("a", newCapacity) /\ Call("a", "a")

SpecRealloc == InitRealloc /\ [][NextRealloc]_vars

(* ---------------- an Iterator over one instance ---------------- *)
\* cursor = v.Begin() + k
BeginOp(v, k) ==
    /\ vecs[v].alive
    /\ cursor' = IterPlus(Begin(vecs[v]), k)
    /\ ret' = Returned(cursor')
    /\ UNCHANGED <<vecs, heap, freeMem, out>>

\* cursor = v.End()
EndOp(v) ==
    /\ vecs[v].alive
    /\ cursor' = End(vecs[v])
    /\ ret' = Returned(cursor')
    /\ UNCHANGED <<vecs, heap, freeMem, out>>

\* one of the four operators applied to the cursor; the pointer stays within
\* MaxIndex slots of the start of its buffer
Step(op) ==
    /\ cursor.buf # NullPtr
    /\ op.self.off \in 0..MaxIndex
    /\ cursor' = op.self
    /\ ret' = Returned(op.result)
    /\ UNCHANGED <<vecs, heap, freeMem, out>>

\* ++cursor
PreIncrementOp == Step(PreIncrement(cursor))
\* cursor++
PostIncrementOp == Step(PostIncrement(cursor))
\* --cursor
PreDecrementOp == Step(PreDecrement(cursor))
\* cursor--
PostDecrementOp == Step(PostDecrement(cursor))

InitIter ==
    /\ vecs = [v \in Vecs |-> Unborn]
    /\ heap = [p \in Addrs |-> NoBuffer]
    /\ freeMem = OneMem
    /\ ret = NoRet
    /\ out = <<>>
    /\ call = NoCall
    /\ cursor = DefaultIterator

NextIter ==
    \/ DefaultCtor("a") /\ Call("a", "a")
    \/ \E value \in Vals : PushBack("a", value) /\ Call("a", "a")
    \/ PopBack("a") /\ Call("a", "a")
    \/ \E k \in 0..MaxIndex : BeginOp("a", k) /\ Call("a", "a")
    \/ EndOp("a") /\ Call("a", "a")
    \/ PreIncrementOp /\ UNCHANGED call
    \/ PostIncrementOp /\ UNCHANGED call
    \/ PreDecrementOp /\ UNCHANGED call
    \/ PostDecrementOp /\ UNCHANGED call

SpecIter == InitIter /\ [][NextIter]_vars

(* ======================= properties ======================= *)
Alive == {v \in Vecs : vecs[v].alive}

\* the sequence s with x put before its j-th element (j = Len(s) + 1 appends)
InsertAt(s, j, x) == SubSeq(s, 1, j - 1) \o <<x>> \o SubSeq(s, j, Len(s))
\* the sequence s without its j-th element
RemoveAt(s, j) == SubSeq(s, 1, j - 1) \o SubSeq(s, j + 1, Len(s))

\* the smallest power of two that is >= n
RECURSIVE Pow2Ceil(_, _)
Pow2Ceil(n, p) == IF p >= n THEN p ELSE Pow2Ceil(n, 2 * p)

\* C1: every live instance has 0 <= Size() <= Capacity(), whatever constructor
\* made it and whatever operations followed.
C1_SizeWithinCapacity ==
    \A v \in Alive : 0 <= vecs[v].m_Size /\ vecs[v].m_Size <= vecs[v].m_Capacity

\* C2: every live instance has Capacity() >= 1.
C2_CapacityAtLeastOne ==
    \A v \in Alive : vecs[v].m_Capacity >= 1

\* C3: between operations the slots [0, Size()) hold objects and the slots
\* [Size(), Capacity()) are uninitialized storage.  (A slot of indeterminate
\* content below Size() is not counted against the claim.)
C3_ExactlyFirstSizeSlotsLive ==
    \A v \in Alive :
        /\ \A i \in 0..(vecs[v].m_Size - 1) :
               SlotOf(World, v, i).st \in {"live", "indet"}
        /\ \A i \in vecs[v].m_Size..(vecs[v].m_Capacity - 1) :
               SlotOf(World, v, i) = Uninit

\* C4: on an instance that was default-constructed and only pushed to, Size()
\* starts at 0 and every PushBack(value) adds one to Size(), puts value at the
\* new last index and keeps every earlier element at its index (also across a
\* growth reallocation); operator[] and At agree on every index below Size().
C4_PushBackKeepsInsertionOrder ==
    /\ vecs["a"].m_Size = 0
    /\ [][\A value \in Vals : PushBack("a", value) =>
            /\ vecs'["a"].m_Size = vecs["a"].m_Size + 1
            /\ Elems(World', "a") = Append(Elems(World, "a"), Live(value))
            /\ \A i \in 0..vecs["a"].m_Size :
                   /\ Index(World', "a", i) = Elems(World', "a")[i + 1]
                   /\ i < vecs'["a"].m_Size]_vars

C4_Witness ==
    /\ vecs["a"].m_Size = 3
    /\ Elems(World, "a") = <<Live(1), Live(2), Live(1)>>

\* C5: after n >= 1 pushes on a default-constructed instance Capacity() is the
\* smallest power of two >= n; the capacity changes only in a push made at
\* Size() = Capacity(), and then doubles.
C5_CapacityIsPowerOfTwoCeiling ==
    /\ [](vecs["a"].m_Size >= 1 =>
            vecs["a"].m_Capacity = Pow2Ceil(vecs["a"].m_Size, INITIAL_CAPACITY))
    /\ [][vecs'["a"].m_Capacity # vecs["a"].m_Capacity =>
            /\ vecs["a"].m_Size = vecs["a"].m_Capacity
            /\ vecs'["a"].m_Capacity = 2 * vecs["a"].m_Capacity]_vars

C5_Witness ==
    /\ vecs["a"].m_Size = 5
    /\ vecs["a"].m_Capacity = 8

\* C6: At(index) throws OutOfRange exactly when index >= Size(), otherwise it
\* returns the element at index; At changes neither an instance nor the heap.
C6_AtChecksBounds ==
    [][\A v \in Vecs, index \in 0..MaxIndex : At(v, index) =>
          /\ (ret'.status = "OutOfRange") <=> (index >= vecs[v].m_Size)
          /\ index < vecs[v].m_Size => ret' = Returned(Elems(World, v)[index + 1])
          /\ UNCHANGED <<vecs, heap, freeMem>>]_vars

C6_Witness ==
    /\ ret.status = "OutOfRange"
    /\ vecs["a"].alive /\ vecs["a"].m_Size = 0
    /\ ~vecs["b"].alive

\* C7: Insert at index k in 0..Size() of an instance holding e0..e(n-1) yields
\* e0..e(k-1), value, ek..e(n-1) and Size() = n + 1, also when Insert grows the
\* buffer.
C7_InsertPlacesValueAtIndex ==
    [][\A v \in Vecs, k \in 0..MaxIndex, value \in Vals :
          (Insert(v, k, value) \/ InsertMove(v, k, value)) =>
              /\ vecs'[v].m_Size = vecs[v].m_Size + 1
              /\ Elems(World', v) = InsertAt(Elems(World, v), k + 1, Live(value))]_vars

\* C8: Erase at index k in 0..Size()-1 of an instance holding e0..e(n-1) yields
\* e0..e(k-1), e(k+1)..e(n-1), Size() = n - 1 and the same Capacity().
C8_EraseRemovesElementAtIndex ==
    [][\A v \in Vecs, k \in 0..MaxIndex : Erase(v, k) =>
          /\ vecs'[v].m_Size = vecs[v].m_Size - 1
          /\ vecs'[v].m_Capacity = vecs[v].m_Capacity
          /\ Elems(World', v) = RemoveAt(Elems(World, v), k + 1)]_vars

C8_Witness ==
    /\ vecs["a"].alive /\ vecs["a"].m_Size = 2 /\ vecs["a"].m_Capacity = 4
    /\ Elems(World, "a") = <<Live(1), Live(2)>>
    /\ SlotOf(World, "a", 2) = MovedFrom

\* the step is a call on v that changes its elements
Mutation(v) ==
    \/ \E value \in Vals : PushBack(v, value)
    \/ PopBack(v)
    \/ \E k \in 0..MaxIndex, value \in Vals : Insert(v, k, value) \/ InsertMove(v, k, value)
    \/ \E k \in 0..MaxIndex : Erase(v, k)
    \/ ClearOp(v)
    \/ \E index \in 0..MaxIndex, value \in Vals : IndexAssign(v, index, value)

\* the instance o and its buffer are as before the step
Untouched(o) ==
    /\ vecs'[o] = vecs[o]
    /\ heap'[vecs[o].m_Data] = heap[vecs[o].m_Data]

\* C9: copy construction and copy assignment from another instance give the
\* destination the source's Size(), Capacity() and element sequence in a buffer
\* of its own and leave the source as it was; a mutation of one instance leaves
\* every other instance and its buffer as they were; copy-assigning an instance
\* to itself changes nothing.
C9_CopyIsDeepAndIndependent ==
    [][/\ \A v \in Vecs, other \in Vecs :
             (/\ v # other
              /\ call' = [self |-> v, arg |-> other]
              /\ (CopyCtor(v, other) \/ CopyAssign(v, other))) =>
                 /\ vecs'[v].m_Size = vecs[other].m_Size
                 /\ vecs'[v].m_Capacity = vecs[other].m_Capacity
                 /\ Elems(World', v) = Elems(World, other)
                 /\ vecs'[v].m_Data # vecs'[other].m_Data
                 /\ Untouched(other)
       /\ \A v \in Vecs :
             (call' = [self |-> v, arg |-> v] /\ CopyAssign(v, v)) =>
                 UNCHANGED <<vecs, heap, freeMem>>
       /\ \A v \in Vecs :
             (/\ call' = [self |-> v, arg |-> v]
              /\ \E o \in Vecs \ {v} : vecs[o].alive /\ ~Untouched(o)) => ~Mutation(v)]_vars

C9_Witness ==
    /\ vecs["a"].alive /\ vecs["b"].alive
    /\ vecs["a"].m_Data # vecs["b"].m_Data
    /\ vecs["a"].m_Capacity = 2 /\ vecs["b"].m_Capacity = 2
    /\ Elems(World, "a") = <<Live(1), Live(2)>>
    /\ Elems(World, "b") = <<Live(1), Live(2)>>

\* C10: move construction and move assignment from another instance give the
\* destination the source's buffer, Size() and Capacity(), and leave the source
\* with Size() = 0 and Capacity() = 1 on a new buffer of one uninitialized
\* slot; an instance in that state accepts a PushBack, which gives Size() = 1;
\* move-assigning an instance to itself changes nothing.
C10_MoveTransfersAndResetsSource ==
    /\ [](\A v \in Alive :
             (vecs[v].m_Size = 0 /\ vecs[v].m_Capacity = INITIAL_CAPACITY) =>
                 \A value \in Vals : ENABLED PushBack(v, value))
    /\ [][/\ \A v \in Vecs, other \in Vecs :
                (/\ v # other
                 /\ call' = [self |-> v, arg |-> other]
                 /\ (MoveCtor(v, other) \/ MoveAssign(v, other))) =>
                    /\ vecs'[v].m_Data = vecs[other].m_Data
                    /\ vecs'[v].m_Size = vecs[other].m_Size
                    /\ vecs'[v].m_Capacity = vecs[other].m_Capacity
                    /\ Elems(World', v) = Elems(World, other)
                    /\ vecs'[other].m_Size = 0
                    /\ vecs'[other].m_Capacity = INITIAL_CAPACITY
                    /\ vecs'[other].m_Data \notin {vecs[other].m_Data, vecs'[v].m_Data}
                    /\ heap'[vecs'[other].m_Data] = [alloc |-> 1, mem |-> [i \in 0..0 |-> Uninit]]
          /\ \A v \in Vecs :
                (call' = [self |-> v, arg |-> v] /\ MoveAssign(v, v)) =>
                    UNCHANGED <<vecs, heap, freeMem>>
          /\ \A v \in Vecs, value \in Vals :
                (/\ call' = [self |-> v, arg |-> v]
                 /\ vecs[v].m_Size = 0
                 /\ vecs[v].m_Capacity = INITIAL_CAPACITY
                 /\ PushBack(v, value)) =>
                    /\ vecs'[v].m_Size = 1
                    /\ ret'.status = "none"
                    /\ Elems(World', v) = <<Live(value)>>]_vars

C10_Witness ==
    /\ vecs["a"].alive /\ vecs["b"].alive
    /\ vecs["a"].m_Capacity = 2
    /\ Elems(World, "a") = <<Live(1), Live(2)>>
    /\ vecs["b"].m_Size = 0 /\ vecs["b"].m_Capacity = INITIAL_CAPACITY
    /\ heap[vecs["b"].m_Data].mem[0] = Uninit

\* C11: from every reachable state a PushBack(value) that is followed at once
\* by PopBack() gives back the Size() and the elements at [0, Size()) of before
\* the PushBack, and the PopBack does not change Capacity().
C11_PushBackThenPopBackRestores ==
    [][\A v \in Vecs, value \in Vals :
          (call' = [self |-> v, arg |-> v] /\ PushBack(v, value)) =>
              LET popped == PopBackOn(World', v)
              IN /\ popped.vecs[v].m_Size = vecs[v].m_Size
                 /\ Elems(popped, v) = Elems(World, v)
                 /\ popped.vecs[v].m_Capacity = vecs'[v].m_Capacity
                 /\ popped.vecs[v].m_Data = vecs'[v].m_Data]_vars

\* a third element was pushed (growing the buffer to 4 slots) and popped again
C11_Witness ==
    /\ vecs["a"].alive /\ vecs["a"].m_Size = 2 /\ vecs["a"].m_Capacity = 4
    /\ Elems(World, "a") = <<Live(2), Live(1)>>
    /\ SlotOf(World, "a", 2) = Uninit /\ SlotOf(World, "a", 3) = Uninit
    /\ ~vecs["b"].alive

C13_EveryObjectDestructedOnce ==
    [][\A v \in Vecs : (call' = [self |-> v, arg |-> v] /\ Dtor(v)) =>
          \A i \in 0..(heap[vecs[v].m_Data].alloc - 1) :
              /\ i < vecs[v].m_Size => SlotOf(World, v, i) # Uninit
              /\ i >= vecs[v].m_Size => ~Constructed(SlotOf(World, v, i))]_vars

\* C14: Clear() destructs every element below Size(), sets Size() to 0 and
\* keeps Capacity(), the buffer and its allocation; a PushBack made while
\* Size() < Capacity(), so each of the pushes that refill the retained
\* capacity, does not reallocate.
C14_ClearKeepsCapacityAndBuffer ==
    [][/\ \A v \in Vecs : (call' = [self |-> v, arg |-> v] /\ ClearOp(v)) =>
             LET p == vecs[v].m_Data
             IN /\ vecs'[v].m_Size = 0
                /\ vecs'[v].m_Capacity = vecs[v].m_Capacity
                /\ vecs'[v].m_Data = p
                /\ heap'[p].alloc = heap[p].alloc
                /\ freeMem' = freeMem
                /\ \A i \in 0..(heap[p].alloc - 1) :
                       heap'[p].mem[i] = IF i < vecs[v].m_Size THEN Uninit ELSE heap[p].mem[i]
                /\ vecs'[v].m_Capacity > 0 =>
                       Grow(World', v) = [thrown |-> FALSE, w |-> World']
       /\ \A v \in Vecs, value \in Vals :
             (/\ call' = [self |-> v, arg |-> v]
              /\ vecs[v].alive /\ vecs[v].m_Size < vecs[v].m_Capacity
              /\ PushBack(v, value)) =>
                 /\ vecs'[v].m_Data = vecs[v].m_Data
                 /\ vecs'[v].m_Capacity = vecs[v].m_Capacity
                 /\ heap'[vecs[v].m_Data].alloc = heap[vecs[v].m_Data].alloc
                 /\ freeMem' = freeMem]_vars

\* a buffer grown to 4 slots and emptied: no object left, all 4 slots retained
C14_Witness ==
    /\ vecs["a"].alive /\ vecs["a"].m_Size = 0 /\ vecs["a"].m_Capacity = 4
    /\ heap[vecs["a"].m_Data] = [alloc |-> 4, mem |-> [i \in 0..3 |-> Uninit]]
    /\ freeMem = OneMem - 4

\* C15: prefix and postfix ++ leave a cursor at position p at p + 1, prefix
\* and postfix -- leave it at p - 1 (in the same buffer).
C15_AdvanceAndRetreatByOne ==
    [][/\ (PreIncrementOp \/ PostIncrementOp) => cursor' = IterPlus(cursor, 1)
       /\ (PreDecrementOp \/ PostDecrementOp) => cursor' = IterPlus(cursor, -1)]_vars

\* C16: in every reachable state of two instances under copy and move
\* construction, copy and move assignment and mutations, every live instance
\* holds an allocated buffer of Capacity() slots and no two live instances hold
\* the same buffer.
C16_NoSharedBuffer ==
    \A v \in Alive :
        /\ vecs[v].m_Data \in Addrs
        /\ heap[vecs[v].m_Data].alloc = vecs[v].m_Capacity
        /\ \A o \in Alive \ {v} : vecs[o].m_Data # vecs[v].m_Data

\* b was copy-assigned from a and then lost an element: two buffers
C16_Witness ==
    /\ vecs["a"].alive /\ vecs["b"].alive
    /\ vecs["a"].m_Capacity = 2 /\ vecs["b"].m_Capacity = 2
    /\ Elems(World, "a") = <<Live(2), Live(1)>>
    /\ Elems(World, "b") = <<Live(2)>>
    /\ SlotOf(World, "b", 1) = Uninit
    /\ call = [self |-> "b", arg |-> "b"]

\* the slot m_Data[index] as Insert finds it when it reaches the assignment:
\* after the growth test and the shift loop
SlotAtAssignment(w, v, index) ==
    LET g == Grow(w, v)
        me == g.w.vecs[v]
    IN Load(ShiftUp(g.w, me.m_Data, me.m_Size, index), me.m_Data, index)

\* C17: in both Insert overloads, for every index k in 0..Size(), the slot k
\* that is assigned the new value holds at that moment a constructed object
\* that the shift left moved-from, never an uninitialized slot.
C17_InsertAssignsToMovedFromSlot ==
    [][\A v \in Vecs, k \in 0..MaxIndex, value \in Vals :
          (Insert(v, k, value) \/ InsertMove(v, k, value)) =>
              SlotAtAssignment(World, v, k) = MovedFrom]_vars

\* C18: PopBack() on an empty instance changes nothing; on a non-empty one it
\* destructs exactly the element at index Size() - 1, decrements Size() and
\* leaves every other slot, the buffer and Capacity() as they were.
C18_PopBackRemovesOnlyTheLast ==
    [][\A v \in Vecs : (call' = [self |-> v, arg |-> v] /\ PopBack(v)) =>
          IF vecs[v].m_Size = 0
          THEN UNCHANGED <<vecs, heap, freeMem>>
          ELSE LET p == vecs[v].m_Data
                   last == vecs[v].m_Size - 1
               IN /\ vecs' = [vecs EXCEPT ![v].m_Size = last]
                  /\ freeMem' = freeMem
                  /\ \A q \in Addrs \ {p} : heap'[q] = heap[q]
                  /\ heap'[p].alloc = heap[p].alloc
                  /\ \A i \in 0..(heap[p].alloc - 1) :
                         heap'[p].mem[i] = IF i = last THEN Uninit ELSE heap[p].mem[i]
                  /\ Elems(World', v) = SubSeq(Elems(World, v), 1, last)]_vars

\* the second of two elements was popped from a buffer of 2 slots
C18_Witness ==
    /\ vecs["a"].alive /\ vecs["a"].m_Size = 1 /\ vecs["a"].m_Capacity = 2
    /\ Elems(World, "a") = <<Live(2)>>
    /\ SlotOf(World, "a", 1) = Uninit
    /\ ~vecs["b"].alive

\* C19: no call of the public interface fails with InvalidCapacity: wherever
\* PushBack or Insert would call Reallocate (Size() = Capacity()) the capacity
\* they pass, 2 * Capacity(), is not below Size().
C19_InvalidCapacityUnreachable ==
    /\ ret.status # "InvalidCapacity"
    /\ \A v \in Alive :
          vecs[v].m_Size = vecs[v].m_Capacity => 2 * vecs[v].m_Capacity >= vecs[v].m_Size

\* a PushBack on an instance of capacity 0 has called Reallocate(0) and returned
C19_Witness ==
    /\ vecs["a"].alive /\ vecs["a"].m_Capacity = 0 /\ vecs["a"].m_Size = 1
    /\ ret.status = "none"
    /\ call = [self |-> "a", arg |-> "a"]
    /\ ~vecs["b"].alive

\* C20: in every reachable state End() - Begin() = Size(); Begin() == End()
\* exactly when Empty(); and for every k in [0, Size()) the cursor Begin() + k
\* points to the slot of operator[](k) and dereferences to the same element.
C20_CursorsAgreeWithIndices ==
    \A v \in Alive :
        LET me == vecs[v]
        IN /\ IterDiff(End(me), Begin(me)) = Size(me)
           /\ IterEq(Begin(me), End(me)) <=> Empty(me)
           /\ \A k \in 0..(Size(me) - 1) :
                  /\ IterPlus(Begin(me), k) = Iterator(me.m_Data, k)
                  /\ Deref(World, IterPlus(Begin(me), k)) = Index(World, v, k)

\* three elements in a buffer of 4 slots
C20_Witness ==
    /\ vecs["a"].alive /\ vecs["a"].m_Size = 3 /\ vecs["a"].m_Capacity = 4
    /\ Elems(World, "a") = <<Live(1), Live(2), Live(2)>>
    /\ IterDiff(End(vecs["a"]), Begin(vecs["a"])) = 3
====
